---- MODULE Spec2Model ----
(***************************************************************************)
(* sshtron: the GameManager (matchmaking), the Game (session set, tick,    *)
(* redraw), the Session and the Player, as goroutines that share the       *)
(* manager's table and each Game's session set without a lock.             *)
(*                                                                         *)
(* Units.  Time is in milliseconds.  A coordinate is an integer number of  *)
(* thousandths of a cell, so the speeds 0.007 and 0.01 cells/ms are 7 and  *)
(* 10 per millisecond.  A score is an integer number of 1/4000 points, so  *)
(* the increment delta * (n-1) * 1.25 / 1000 is delta * (n-1) * 5.         *)
(***************************************************************************)
EXTENDS Integers, Sequences, FiniteSets, TLC

\* ------------------------------------------------------------------ bounds
\* Connections accepted by main's loop; each runs handler -> HandleChannel.
MaxConns == 2
\* Distinct names petname.Generate can return.
NumNames == 2
\* Grid handed to NewGame (the program uses 78 x 22).
WorldW == 2
WorldH == 2
\* Tick periods the clock can advance by, before and after a stall.
MaxTicks == 2
\* Sessions of the Game that is running in SpecRun.
RunSessions == 1
\* Sessions of the Game that is running in SpecPlay.
PlaySessions == 2
\* Runes a bufio.Reader can hold unread.
MaxBuffered == 1
\* Sessions of the Game that is running in SpecScore, and the tick periods
\* its clock runs for.
ScoreSessions == 3
ScoreTicks == 5

\* --------------------------------------------------------------- constants
verticalPlayerSpeed == 7
horizontalPlayerSpeed == 10
\* playerCountScoreMultiplier / 1000 in score units (1/4000 point).
playerCountScoreMultiplier == 5
ScoreUnit == 4000
CellUnit == 1000
HalfCell == 500
\* playerTimeout, 15 * time.Second, in ms.
playerTimeout == 15000
\* One period of the redraw-free game loop as the model draws it (a tick that
\* is late by more than the 1/60 s period, but within 100 ms).
TickDelta == 100
\* now.Sub(lastUpdate) with lastUpdate the zero time.Time: the Duration
\* saturates (about 9.2e12 ms); scaled to fit a 32-bit integer.
zeroTimeDelta == 1000000

playerColors == <<"Red", "Green", "Magenta", "Cyan">>

Palette == {playerColors[i] : i \in 1 .. Len(playerColors)}

Conns == 1 .. MaxConns
\* A Game object is identified by the connection whose HandleChannel made it.
Names == 1 .. NumNames
NoGame == 0

Directions == {"PlayerUp", "PlayerLeft", "PlayerDown", "PlayerRight"}

\* -------------------------------------------------------------- geometry
\* Go's int(f): truncation toward zero.
Trunc(n, d) == IF n >= 0 THEN n \div d ELSE -((-n) \div d)

RoundX(p) == Trunc(p.X + HalfCell, CellUnit)

RoundY(p) == Trunc(p.Y + HalfCell, CellUnit)

PositionFromInt(x, y) == [X |-> x * CellUnit, Y |-> y * CellUnit]

Cell(p) == <<RoundX(p), RoundY(p)>>

\* ------------------------------------------------------------------ state
VARIABLES
    Games,      \* gm.Games: name -> Game (NoGame: no entry)
    game,       \* the Game objects: Name, HighScore, Sessions, hashWriting
    tick,       \* each Game's game-loop goroutine (Run / Update)
    renders,    \* Render goroutines spawned by the redraw loop, not yet run
    Player,     \* session.Player of each Session made so far
    hc,         \* each connection's HandleChannel call: pc and local g
    inp,        \* each Session's handleSession goroutine
    stream,     \* each connection's channel: writes, Close calls, peer
    now,        \* the wall clock
    fatal,      \* the runtime error that killed the process, or "none"
    lastInput,  \* history: when the participant's last accepted direction
                \* command (or, before any, its admission) happened
    world       \* the worldString call of each Session's Render goroutine
\* inp[c].ignored is history too: the last rune read was a direction command
\* opposite to the Player's Direction.
\* tick[g].advanced is history too: the Sessions whose Player the current (or
\* last) tick has moved and not restarted; and tick[g].collided: the Sessions
\* whose Player the second loop of the last tick has restarted; and
\* tick[g].closedBefore: the Sessions whose stream was closed when the tick
\* that is running began.

vars == <<Games, game, tick, renders, Player, hc, inp, stream, now, fatal,
          lastInput, world>>

\* ------------------------------------------------------------------ Player
Opposite(d) ==
    CASE d = "PlayerUp" -> "PlayerDown"
      [] d = "PlayerDown" -> "PlayerUp"
      [] d = "PlayerLeft" -> "PlayerRight"
      [] d = "PlayerRight" -> "PlayerLeft"

RuneOf(d) ==
    CASE d = "PlayerUp" -> "playerUpRune"
      [] d = "PlayerDown" -> "playerDownRune"
      [] d = "PlayerLeft" -> "playerLeftRune"
      [] d = "PlayerRight" -> "playerRightRune"

\* A NewPlayer that starts with a point on the board.
NewPlayerScored(color, start, t) ==
    [Marker |-> "playerDownRune", LastAction |-> t,
     Direction |-> "PlayerDown", Color |-> color, Pos |-> start,
     Trail |-> <<>>, score |-> 4000, HighScore |-> 0]

\* NewPlayer.  Every caller passes a palette color (HandleChannel passes
\* AvailableColors()[0], StartOver the old Player's Color), so the branch for
\* color < 0 is never taken.  start is the pair of rand.Float64() draws, t the
\* value of time.Now().  The fields s and CreatedAt are written here and read
\* nowhere; they are left out.
NewPlayer(color, start, t) ==
    [Marker |-> "playerDownRune", LastAction |-> t,
     Direction |-> "PlayerDown", Color |-> color, Pos |-> start,
     Trail |-> <<>>, score |-> 0, HighScore |-> 0]

\* An addTrailSegment that puts the new segment behind the others.
addTrailSegmentBehind(p, pos, marker) ==
    [p EXCEPT !.Trail = @ \o <<[Marker |-> marker, Pos |-> pos]>>]

addTrailSegment(p, pos, marker) ==
    [p EXCEPT !.Trail = <<[Marker |-> marker, Pos |-> pos]>> \o @]

\* A score increment that counts the Player itself.
scoreWithSelf(p, delta, playerCount) ==
    p.score + delta * playerCount * playerCountScoreMultiplier

calculateScore(p, delta, playerCount) ==
    p.score + delta * (playerCount - 1) * playerCountScoreMultiplier

\* A direction command that is taken whatever the Direction.
HandleAnyDirection(p, d, t) ==
    [p EXCEPT !.Direction = d, !.Marker = RuneOf(d), !.LastAction = t]

\* HandleUp / HandleLeft / HandleDown / HandleRight followed by didAction,
\* the call taken as one step.
HandleDirection(p, d, t) ==
    IF p.Direction = Opposite(d)
    THEN p
    ELSE [p EXCEPT !.Direction = d, !.Marker = RuneOf(d), !.LastAction = t]

Score(p) == Trunc(p.score, ScoreUnit)

\* A movement switch with twice the speeds.
MovedTwice(p, delta) ==
    CASE p.Direction = "PlayerUp" ->
           [p.Pos EXCEPT !.Y = @ - 2 * verticalPlayerSpeed * delta]
      [] p.Direction = "PlayerLeft" ->
           [p.Pos EXCEPT !.X = @ - 2 * horizontalPlayerSpeed * delta]
      [] p.Direction = "PlayerDown" ->
           [p.Pos EXCEPT !.Y = @ + 2 * verticalPlayerSpeed * delta]
      [] p.Direction = "PlayerRight" ->
           [p.Pos EXCEPT !.X = @ + 2 * horizontalPlayerSpeed * delta]

\* The position after the movement switch of Player.Update.
Moved(p, delta) ==
    CASE p.Direction = "PlayerUp" ->
           [p.Pos EXCEPT !.Y = @ - verticalPlayerSpeed * delta]
      [] p.Direction = "PlayerLeft" ->
           [p.Pos EXCEPT !.X = @ - horizontalPlayerSpeed * delta]
      [] p.Direction = "PlayerDown" ->
           [p.Pos EXCEPT !.Y = @ + verticalPlayerSpeed * delta]
      [] p.Direction = "PlayerRight" ->
           [p.Pos EXCEPT !.X = @ + horizontalPlayerSpeed * delta]

\* A glyph switch without the corner cases.
TrailGlyphStraight(p, startX, startY, endX, endY) ==
    IF endX = startX /\ endY # startY THEN "playerTrailVertical"
    ELSE IF endX # startX /\ endY = startY THEN "playerTrailHorizontal"
    ELSE "none"

\* The switch that picks the glyph of the new trail segment; "none" when no
\* case matches.  In Go && binds tighter than ||, so the second disjunct of
\* each corner case is tried also when the trail is empty, with lastSegX and
\* lastSegY at their zero values.
TrailGlyph(p, startX, startY, endX, endY) ==
    LET hasSeg == Len(p.Trail) > 0
        lastSegX == IF hasSeg THEN RoundX(p.Trail[1].Pos) ELSE 0
        lastSegY == IF hasSeg THEN RoundY(p.Trail[1].Pos) ELSE 0
        d == p.Direction
    IN  IF \/ hasSeg /\ d = "PlayerRight" /\ endX > lastSegX /\ endY < lastSegY
           \/ d = "PlayerDown" /\ endX < lastSegX /\ endY > lastSegY
        THEN "playerTrailLeftCornerUp"
        ELSE IF \/ hasSeg /\ d = "PlayerUp" /\ endX > lastSegX /\ endY < lastSegY
                \/ d = "PlayerLeft" /\ endX < lastSegX /\ endY > lastSegY
        THEN "playerTrailRightCornerDown"
        ELSE IF \/ hasSeg /\ d = "PlayerDown" /\ endX > lastSegX /\ endY > lastSegY
                \/ d = "PlayerLeft" /\ endX < lastSegX /\ endY < lastSegY
        THEN "playerTrailRightCornerUp"
        ELSE IF \/ hasSeg /\ d = "PlayerRight" /\ endX > lastSegX /\ endY > lastSegY
                \/ d = "PlayerUp" /\ endX < lastSegX /\ endY < lastSegY
        THEN "playerTrailLeftCornerDown"
        ELSE IF endX = startX /\ endY < startY THEN "playerTrailVertical"
        ELSE IF endX < startX /\ endY = startY THEN "playerTrailHorizontal"
        ELSE IF endX = startX /\ endY > startY THEN "playerTrailVertical"
        ELSE IF endX > startX /\ endY = startY THEN "playerTrailHorizontal"
        ELSE "none"

\* A Player.Update that leaves a segment at every update.
PlayerUpdateAlways(p, delta, playerCount) ==
    LET q == [p EXCEPT !.Pos = Moved(p, delta)]
        r == addTrailSegment(q, PositionFromInt(RoundX(p.Pos), RoundY(p.Pos)),
                             "playerTrailVertical")
    IN  [r EXCEPT !.score = calculateScore(r, delta, playerCount)]

\* Player.Update(g, delta); playerCount is len(g.players()) as read there.
PlayerUpdate(p, delta, playerCount) ==
    LET startX == RoundX(p.Pos)
        startY == RoundY(p.Pos)
        q == [p EXCEPT !.Pos = Moved(p, delta)]
        endX == RoundX(q.Pos)
        endY == RoundY(q.Pos)
        glyph == TrailGlyph(q, startX, startY, endX, endY)
        r == IF (endX # startX \/ endY # startY) /\ glyph # "none"
             THEN addTrailSegment(q, PositionFromInt(startX, startY), glyph)
             ELSE q
    IN  [r EXCEPT !.score = calculateScore(r, delta, playerCount)]

\* An out-of-bounds test that finds every position inside.
NeverOut(pos) == FALSE

\* The out-of-bounds test of Game.Update.
OutOfBounds(pos) ==
    \/ RoundX(pos) < 0 \/ RoundX(pos) >= WorldW
    \/ RoundY(pos) < 0 \/ RoundY(pos) >= WorldH

\* The cells of a trail, as the keys Update puts into trailCoordMap.
TrailCells(p) == {Cell(p.Trail[i].Pos) : i \in 1 .. Len(p.Trail)}

\* -------------------------------------------------------------------- Game
\* len(g.Sessions).
SessionCount(g) == Cardinality(game[g].Sessions)

\* len(g.players()): one Player per Session.
PlayerCount(g) == Cardinality(game[g].Sessions)

\* An AvailableColors that finds no color used.
AllColors(g) == Palette

\* The map usedColors of AvailableColors once its first two loops are over: a
\* key for every palette color and for every color of a Player of
\* g.players(), true for the latter.
usedColors(g) ==
    [c \in Palette \cup {Player[s].Color : s \in game[g].Sessions} |->
        \E s \in game[g].Sessions : Player[s].Color = c]

\* The third loop: the keys that map to false (as a set: the slice comes in
\* the order of a map iteration, which is not fixed).
AvailableColors(g) ==
    {c \in DOMAIN usedColors(g) : ~usedColors(g)[c]}

\* The Games that gm.Games holds.
InTable(g) == \E n \in Names : Games[n] = g

\* getGameWithAvailability: the range over gm.Games stops at the first Game
\* with a free color, and the iteration order of a map is not fixed.
GamesWithAvailability ==
    {g \in DOMAIN game : InTable(g) /\ AvailableColors(g) # {}}

\* ------------------------------------------------------------------- Init
\* The start positions NewPlayer draws: rand.Float64() * width is anywhere in
\* [0, width), and so for the height; the model draws the origin and the
\* centre of the last cell.
Origin == [X |-> 0, Y |-> 0]

LastCell == [X |-> (WorldW - 1) * CellUnit, Y |-> (WorldH - 1) * CellUnit]

\* The draws in the last half cell: rand.Float64() at or above 1 - 0.5/width
\* (1 - 0.5/height).
EdgeX == [X |-> WorldW * CellUnit - HalfCell, Y |-> 0]

EdgeY == [X |-> 0, Y |-> WorldH * CellUnit - HalfCell]

Starts == {Origin, LastCell, EdgeX, EdgeY}

\* The instants at which the clock is read: up to MaxTicks tick periods, then
\* the same again after one stall of the length of the timeout.
Times ==
    {k * TickDelta + j * playerTimeout : k \in 1 .. MaxTicks, j \in 0 .. 1}

\* What ReadRune can return: a direction key, a quit key (Ctrl-C, Escape),
\* any other rune.
Runes == Directions \cup {"quit", "other"}

\* The key constants, as code points.
keyW == 119

keyA == 97

keyS == 115

keyD == 100

keyH == 104

keyJ == 106

keyK == 107

keyL == 108

keyComma == 44

keyO == 111

keyE == 101

keyCtrlC == 3

keyEscape == 27

\* The runes a participant sends: the keys above and some others ('x', 'W',
\* the '[' and 'A' that follow Escape in an arrow key, Return, a space).
Keys ==
    {keyW, keyA, keyS, keyD, keyH, keyJ, keyK, keyL, keyComma, keyO, keyE,
     keyCtrlC, keyEscape} \cup {120, 87, 91, 65, 13, 32}

\* A switch on r that knows the WASD keys and the quit keys only.
KeyCommandWASD(r) ==
    CASE r = keyW -> "PlayerUp"
      [] r = keyA -> "PlayerLeft"
      [] r = keyS -> "PlayerDown"
      [] r = keyD -> "PlayerRight"
      [] r \in {keyCtrlC, keyEscape} -> "quit"
      [] OTHER -> "other"

\* The case of `switch r` in handleSession that a rune selects.
KeyCommand(r) ==
    CASE r \in {keyW, keyK, keyComma} -> "PlayerUp"
      [] r \in {keyA, keyH} -> "PlayerLeft"
      [] r \in {keyS, keyJ, keyO} -> "PlayerDown"
      [] r \in {keyD, keyL, keyE} -> "PlayerRight"
      [] r \in {keyCtrlC, keyEscape} -> "quit"
      [] OTHER -> "other"

NoTick ==
    [pc |-> "wait", lastTick |-> 0, lastUpdate |-> -1, now |-> 0, delta |-> 0,
     todo |-> {}, trailCoordMap |-> {}, cur |-> 0, ok |-> FALSE,
     advanced |-> {}, collided |-> {}, closedBefore |-> {}]

\* No worldString call under way; counted, listed and drawn are the results
\* of its three calls of g.players(), as the sets of Sessions they range over.
NoCall == [pc |-> "idle", counted |-> {}, listed |-> {}, drawn |-> {}]

Init ==
    /\ Games = [n \in Names |-> NoGame]
    /\ game = <<>>
    /\ tick = <<>>
    /\ renders = {}
    /\ Player = <<>>
    /\ hc = [c \in Conns |-> [pc |-> "start", g |-> NoGame]]
    /\ inp = [c \in Conns |-> [pc |-> "none", ok |-> FALSE, ignored |-> FALSE]]
    /\ stream = [c \in Conns |->
                   [closed |-> 0, endMsgs |-> 0, notices |-> 0, late |-> FALSE,
                    buffered |-> 0, peer |-> "up", rune |-> 0]]
    /\ now = 0
    /\ fatal = "none"
    /\ lastInput = [c \in Conns |-> 0]
    /\ world = [c \in Conns |-> NoCall]

\* The process runs until a runtime error (a panic in a goroutine, a fatal
\* error of the map implementation) kills it.
Alive == fatal = "none"

\* The runtime's check in mapiterinit / mapaccess / mapassign / mapdelete: an
\* access to g.Sessions that sees the hashWriting flag another goroutine has
\* set dies.  The flag is read without synchronization: an access that
\* overlaps a write either sees it (seen) or goes on with the map as the write
\* leaves it.
Die(msg) ==
    /\ fatal' = msg
    /\ UNCHANGED <<Games, game, tick, renders, Player, hc, inp, stream, now,
                   lastInput, world>>

\* Session.Write is s.c.Write: it returns once the peer has taken the bytes
\* (or the channel is closed or broken), and so waits for as long as a peer
\* that is connected takes nothing.
CanWrite(st) == st.peer # "stalled"

\* A write to the Session's channel (fmt.Fprint, io.Copy); the error a closed
\* channel returns is dropped by every caller.
Wrote(st) == [st EXCEPT !.late = @ \/ st.closed > 0]

\* ---------------------------------------------------------- HandleChannel
\* g := gm.getGameWithAvailability()
HCGet(c) ==
    /\ Alive
    /\ hc[c].pc = "start"
    /\ \/ /\ \E g \in DOMAIN game : InTable(g) /\ game[g].hashWriting
          /\ Die("concurrent map iteration and map write")
       \/ /\ \E g \in GamesWithAvailability :
                 hc' = [hc EXCEPT ![c] = [pc |-> "session", g |-> g]]
          /\ UNCHANGED <<Games, game, tick, renders, Player, inp, stream, now,
                         fatal, lastInput, world>>
       \/ /\ GamesWithAvailability = {}
          /\ hc' = [hc EXCEPT ![c].pc = "new"]
          /\ UNCHANGED <<Games, game, tick, renders, Player, inp, stream, now,
                         fatal, lastInput, world>>

\* g = NewGame(gameWidth, gameHeight); gm.Games[g.Name] = g; go g.Run()
HCNew(c) ==
    /\ Alive
    /\ hc[c].pc = "new"
    /\ \E n \in Names :
         /\ game' = game @@ (c :> [Name |-> n, HighScore |-> 0,
                                   Sessions |-> {}, hashWriting |-> FALSE])
         /\ Games' = [Games EXCEPT ![n] = c]
    /\ tick' = tick @@ (c :> [NoTick EXCEPT !.lastTick = now])
    /\ hc' = [hc EXCEPT ![c] = [pc |-> "session", g |-> c]]
    /\ UNCHANGED <<renders, Player, inp, stream, now, fatal, lastInput, world>>

\* session := NewSession(c, w, h, g.AvailableColors()[0])
HCSession(c, starts) ==
    /\ Alive
    /\ hc[c].pc = "session"
    /\ LET g == hc[c].g IN
       \E seen \in BOOLEAN : IF game[g].hashWriting /\ seen
       THEN Die("concurrent map iteration and map write")
       ELSE IF AvailableColors(g) = {}
       THEN Die("index out of range")
       ELSE /\ \E color \in AvailableColors(g), start \in starts :
                 Player' = Player @@ (c :> NewPlayer(color, start, now))
            /\ lastInput' = [lastInput EXCEPT ![c] = now]
            /\ hc' = [hc EXCEPT ![c].pc = "add_write"]
            /\ UNCHANGED <<Games, game, tick, renders, inp, stream, now, fatal,
                           world>>

\* AddSession: fmt.Fprint(s, "\033[?25l")
HCAddWrite(c) ==
    /\ Alive
    /\ hc[c].pc = "add_write"
    /\ CanWrite(stream[c])
    /\ stream' = [stream EXCEPT ![c] = Wrote(@)]
    /\ hc' = [hc EXCEPT ![c].pc = "add_insert"]
    /\ UNCHANGED <<Games, game, tick, renders, Player, inp, now, fatal,
                   lastInput, world>>

\* An AddSession that registers the Session in every Game there is.
HCAddInsertAll(c) ==
    /\ Alive
    /\ hc[c].pc = "add_insert"
    /\ game' = [g \in DOMAIN game |->
                  [game[g] EXCEPT !.Sessions = @ \cup {c},
                                  !.hashWriting = (g = hc[c].g)]]
    /\ hc' = [hc EXCEPT ![c].pc = "add_end"]
    /\ UNCHANGED <<Games, tick, renders, Player, inp, stream, now, fatal,
                   lastInput, world>>

\* AddSession: g.Sessions[s] = struct{}{} (mapassign sets hashWriting)
HCAddInsert(c) ==
    /\ Alive
    /\ hc[c].pc = "add_insert"
    /\ LET g == hc[c].g IN
       \E seen \in BOOLEAN : IF game[g].hashWriting /\ seen
       THEN Die("concurrent map writes")
       ELSE /\ game' = [game EXCEPT ![g].Sessions = @ \cup {c},
                                    ![g].hashWriting = TRUE]
            /\ hc' = [hc EXCEPT ![c].pc = "add_end"]
            /\ UNCHANGED <<Games, tick, renders, Player, inp, stream, now,
                           fatal, lastInput, world>>

\* mapassign clears hashWriting; AddSession returns; go handleSession()
HCAddEnd(c) ==
    /\ Alive
    /\ hc[c].pc = "add_end"
    /\ game' = [game EXCEPT ![hc[c].g].hashWriting = FALSE]
    /\ hc' = [hc EXCEPT ![c].pc = "done"]
    /\ inp' = [inp EXCEPT ![c].pc = "read"]
    /\ UNCHANGED <<Games, tick, renders, Player, stream, now, fatal, lastInput,
                   world>>

\* ----------------------------------------------------------- RemoveSession
\* A RemoveSession that goes on whatever its membership test finds.
RemoveUnguarded(g, s) == TRUE

\* `_, ok := g.Sessions[s]`
RemoveSessionGuard(g, s) == s \in game[g].Sessions

\* The two writes of RemoveSession: the termination message, the show-cursor
\* sequence.
EndOfLine(st) == [Wrote(st) EXCEPT !.endMsgs = @ + 1]

\* s.c.Close()
Closed(st) == [st EXCEPT !.closed = @ + 1]

\* ----------------------------------------------------------- handleSession
\* r, _, err := reader.ReadRune() and the switch on r, up to the call of
\* RemoveSession.  A rune the bufio.Reader holds is returned whether or not
\* the channel has been closed since; with none buffered, a closed channel or
\* a peer that is gone gives the error that ends the loop.
InRead(c, runes) ==
    /\ Alive
    /\ inp[c].pc = "read"
    /\ IF stream[c].buffered > 0
       THEN /\ stream' = [stream EXCEPT ![c].buffered = @ - 1]
            /\ \E r \in runes :
                 CASE r \in Directions ->
                        /\ Player' = [Player EXCEPT
                                        ![c] = HandleDirection(@, r, now)]
                        /\ lastInput' =
                             IF Player[c].Direction = Opposite(r)
                             THEN lastInput
                             ELSE [lastInput EXCEPT ![c] = now]
                        /\ inp' = [inp EXCEPT ![c].ignored =
                                     Player[c].Direction = Opposite(r)]
                   [] r = "quit" ->
                        /\ inp' = [inp EXCEPT ![c].pc = "quit_count",
                                              ![c].ignored = FALSE]
                        /\ UNCHANGED <<Player, lastInput>>
                   [] r = "other" ->
                        /\ inp' = [inp EXCEPT ![c].ignored = FALSE]
                        /\ UNCHANGED <<Player, lastInput>>
       ELSE /\ stream[c].closed > 0 \/ stream[c].peer = "gone"
            /\ inp' = [inp EXCEPT ![c].pc = "exit"]
            /\ UNCHANGED <<Player, lastInput, stream>>
    /\ UNCHANGED <<Games, game, tick, renders, hc, now, fatal, world>>

\* The read of the rune the participant sent.
InKey(c) == InRead(c, {KeyCommand(stream[c].rune)})

\* The same read, of a direction key, with HandleUp / HandleLeft / HandleDown
\* / HandleRight taken statement by statement: the test of the opposite
\* Direction and `p.Direction = ...`.
InReadTurn(c) ==
    /\ Alive
    /\ inp[c].pc = "read"
    /\ stream[c].buffered > 0
    /\ stream' = [stream EXCEPT ![c].buffered = @ - 1]
    /\ \E r \in Directions :
         IF Player[c].Direction = Opposite(r)
         THEN /\ inp' = [inp EXCEPT ![c].ignored = TRUE]
              /\ Player' = Player
         ELSE /\ inp' = [inp EXCEPT ![c].pc = "set_marker",
                                    ![c].ignored = FALSE]
              /\ Player' = [Player EXCEPT ![c].Direction = r]
    /\ UNCHANGED <<Games, game, tick, renders, hc, now, fatal, lastInput,
                   world>>

\* `p.Marker = ...`: the rune of the Direction just set.
InSetMarker(c) ==
    /\ Alive
    /\ inp[c].pc = "set_marker"
    /\ Player' = [Player EXCEPT ![c].Marker = RuneOf(Player[c].Direction)]
    /\ inp' = [inp EXCEPT ![c].pc = "did_action"]
    /\ UNCHANGED <<Games, game, tick, renders, hc, stream, now, fatal,
                   lastInput, world>>

\* p.didAction(); back to ReadRune
InDidAction(c) ==
    /\ Alive
    /\ inp[c].pc = "did_action"
    /\ Player' = [Player EXCEPT ![c].LastAction = now]
    /\ lastInput' = [lastInput EXCEPT ![c] = now]
    /\ inp' = [inp EXCEPT ![c].pc = "read"]
    /\ UNCHANGED <<Games, game, tick, renders, hc, stream, now, fatal, world>>

\* if g.SessionCount() == 1
InQuitCount(c) ==
    /\ Alive
    /\ inp[c].pc = "quit_count"
    /\ inp' = [inp EXCEPT ![c].pc = IF SessionCount(hc[c].g) = 1
                                    THEN "quit_delete" ELSE "rm_check"]
    /\ UNCHANGED <<Games, game, tick, renders, Player, hc, stream, now, fatal,
                   lastInput, world>>

\* delete(gm.Games, g.Name)
InQuitDelete(c) ==
    /\ Alive
    /\ inp[c].pc = "quit_delete"
    /\ Games' = [Games EXCEPT ![game[hc[c].g].Name] = NoGame]
    /\ inp' = [inp EXCEPT ![c].pc = "rm_check"]
    /\ UNCHANGED <<game, tick, renders, Player, hc, stream, now, fatal,
                   lastInput, world>>

\* g.RemoveSession(session): the membership test
InRmCheck(c) ==
    /\ Alive
    /\ inp[c].pc = "rm_check"
    /\ LET g == hc[c].g IN
       \E seen \in BOOLEAN : IF game[g].hashWriting /\ seen
       THEN Die("concurrent map read and map write")
       ELSE /\ inp' = [inp EXCEPT ![c] =
                         [@ EXCEPT !.pc = IF RemoveSessionGuard(g, c)
                                          THEN "rm_write" ELSE "read",
                                   !.ok = RemoveSessionGuard(g, c)]]
            /\ UNCHANGED <<Games, game, tick, renders, Player, hc, stream,
                           now, fatal, lastInput, world>>

\* RemoveSession: the two fmt.Fprint calls
InRmWrite(c) ==
    /\ Alive
    /\ inp[c].pc = "rm_write"
    /\ CanWrite(stream[c])
    /\ stream' = [stream EXCEPT ![c] = EndOfLine(@)]
    /\ inp' = [inp EXCEPT ![c].pc = "rm_delete"]
    /\ UNCHANGED <<Games, game, tick, renders, Player, hc, now, fatal,
                   lastInput, world>>

\* A RemoveSession that leaves the Session in the session set.
InRmDeleteKept(c) ==
    /\ Alive
    /\ inp[c].pc = "rm_delete"
    /\ inp' = [inp EXCEPT ![c].pc = "rm_delend"]
    /\ UNCHANGED <<Games, game, tick, renders, Player, hc, stream, now, fatal,
                   lastInput, world>>

\* RemoveSession: delete(g.Sessions, s) (mapdelete sets hashWriting)
InRmDelete(c) ==
    /\ Alive
    /\ inp[c].pc = "rm_delete"
    /\ LET g == hc[c].g IN
       \E seen \in BOOLEAN : IF game[g].hashWriting /\ seen
       THEN Die("concurrent map writes")
       ELSE /\ game' = [game EXCEPT ![g].Sessions = @ \ {c},
                                    ![g].hashWriting = TRUE]
            /\ inp' = [inp EXCEPT ![c].pc = "rm_delend"]
            /\ UNCHANGED <<Games, tick, renders, Player, hc, stream, now,
                           fatal, lastInput, world>>

\* mapdelete clears hashWriting
InRmDelEnd(c) ==
    /\ Alive
    /\ inp[c].pc = "rm_delend"
    /\ game' = [game EXCEPT ![hc[c].g].hashWriting = FALSE]
    /\ inp' = [inp EXCEPT ![c].pc = "rm_close"]
    /\ UNCHANGED <<Games, tick, renders, Player, hc, stream, now, fatal,
                   lastInput, world>>

\* RemoveSession: s.c.Close(); back to ReadRune
InRmClose(c) ==
    /\ Alive
    /\ inp[c].pc = "rm_close"
    /\ stream' = [stream EXCEPT ![c] = Closed(@)]
    /\ inp' = [inp EXCEPT ![c].pc = "read"]
    /\ UNCHANGED <<Games, game, tick, renders, Player, hc, now, fatal,
                   lastInput, world>>

\* ------------------------------------------------- Game.Run: the game loop
\* A tick arrives from time.Tick and Update(delta) starts: trailCoordMap is
\* made and the first g.players() is taken.  The ticker delivers a tick only
\* once the clock has moved past the previous one.
TickBegin(g) ==
    /\ Alive
    /\ tick[g].pc = "wait"
    /\ now > tick[g].lastTick
    /\ \E seen \in BOOLEAN : IF game[g].hashWriting /\ seen
       THEN Die("concurrent map iteration and map write")
       ELSE /\ tick' = [tick EXCEPT ![g] =
                 [@ EXCEPT !.pc = IF game[g].Sessions = {}
                                  THEN "loop2" ELSE "loop1",
                           !.lastTick = now,
                           !.now = now,
                           !.delta = IF tick[g].lastUpdate < 0
                                     THEN zeroTimeDelta
                                     ELSE now - tick[g].lastUpdate,
                           !.todo = game[g].Sessions,
                           !.trailCoordMap = {},
                           !.cur = 0,
                           !.advanced = {},
                           !.collided = {},
                           !.closedBefore = {s \in DOMAIN stream :
                                               stream[s].closed > 0}]]
            /\ UNCHANGED <<Games, game, renders, Player, hc, inp, stream, now,
                           fatal, lastInput, world>>

\* A loop body without its first `if`.
WithoutHighScore(p) == p

\* player.HighScore after the first `if` of the loop body.
WithHighScore(p) ==
    IF Score(p) > p.HighScore THEN [p EXCEPT !.HighScore = Score(p)] ELSE p

\* time.Now().Sub(player.LastAction) > playerTimeout
TimedOut(p, t) == t - p.LastAction > playerTimeout

\* Update returns and the goroutine sets lastUpdate = now.  cur stays: it is
\* the Session whose eviction ended the tick, 0 when the tick ran both loops.
TickDone(t) ==
    [t EXCEPT !.pc = "wait", !.lastUpdate = t.now, !.todo = {},
              !.trailCoordMap = {}, !.closedBefore = {}]

\* One iteration of the first loop of Update, for the pair (player, session)
\* of the snapshot: player.Update, the two high scores, the restart when out
\* of bounds, the timeout test, the trail put into trailCoordMap.  After
\* StartOver the loop variable still holds the old Player, whose LastAction
\* and Trail the rest of the body reads.
TickPlayer(g, s, starts) ==
    /\ Alive
    /\ tick[g].pc = "loop1"
    /\ s \in tick[g].todo
    /\ \E seen \in BOOLEAN : IF game[g].hashWriting /\ seen
       THEN Die("concurrent map iteration and map write")
       ELSE LET t == tick[g]
                p == WithHighScore(PlayerUpdate(Player[s], t.delta,
                                                PlayerCount(g)))
                rest == t.todo \ {s}
            IN  /\ game' = [game EXCEPT ![g].HighScore =
                              IF Score(p) > @ THEN Score(p) ELSE @]
                /\ IF OutOfBounds(p.Pos)
                   THEN \E start \in starts :
                          Player' = [Player EXCEPT
                                       ![s] = NewPlayer(p.Color, start, now)]
                   ELSE Player' = [Player EXCEPT ![s] = p]
                /\ tick' = [tick EXCEPT ![g] =
                     LET u == [t EXCEPT !.advanced =
                                 IF OutOfBounds(p.Pos) THEN @ ELSE @ \cup {s}]
                     IN  IF TimedOut(p, now)
                         THEN [u EXCEPT !.pc = "evict_notice", !.cur = s]
                         ELSE [u EXCEPT !.todo = rest,
                                        !.trailCoordMap = @ \cup TrailCells(p),
                                        !.pc = IF rest = {} THEN "loop2"
                                               ELSE "loop1"]]
                /\ UNCHANGED <<Games, renders, hc, inp, stream, now, fatal,
                               lastInput, world>>

\* The same iteration in two steps.  First `player.Update(g, delta)`, which
\* moves player.Pos in place.
TickMove(g, s) ==
    /\ Alive
    /\ tick[g].pc = "loop1"
    /\ s \in tick[g].todo
    /\ \E seen \in BOOLEAN : IF game[g].hashWriting /\ seen
       THEN Die("concurrent map iteration and map write")
       ELSE /\ Player' = [Player EXCEPT
                            ![s] = PlayerUpdate(@, tick[g].delta,
                                                PlayerCount(g))]
            /\ tick' = [tick EXCEPT ![g].pc = "check", ![g].cur = s]
            /\ UNCHANGED <<Games, game, renders, hc, inp, stream, now, fatal,
                           lastInput, world>>

\* Then the rest of the body: the two high scores, the restart when out of
\* bounds, the timeout test, the trail put into trailCoordMap.
TickCheck(g, starts) ==
    /\ Alive
    /\ tick[g].pc = "check"
    /\ LET t == tick[g]
           s == t.cur
           p == WithHighScore(Player[s])
           rest == t.todo \ {s}
       IN  /\ game' = [game EXCEPT ![g].HighScore =
                         IF Score(p) > @ THEN Score(p) ELSE @]
           /\ IF OutOfBounds(p.Pos)
              THEN \E start \in starts :
                     Player' = [Player EXCEPT
                                  ![s] = NewPlayer(p.Color, start, now)]
              ELSE Player' = [Player EXCEPT ![s] = p]
           /\ tick' = [tick EXCEPT ![g] =
                LET u == [t EXCEPT !.advanced =
                            IF OutOfBounds(p.Pos) THEN @ ELSE @ \cup {s}]
                IN  IF TimedOut(p, now)
                    THEN [u EXCEPT !.pc = "evict_notice"]
                    ELSE [u EXCEPT !.todo = rest,
                                   !.cur = 0,
                                   !.trailCoordMap = @ \cup TrailCells(p),
                                   !.pc = IF rest = {} THEN "loop2"
                                          ELSE "loop1"]]
           /\ UNCHANGED <<Games, renders, hc, inp, stream, now, fatal,
                          lastInput, world>>

\* fmt.Fprint(session, "... terminated due to inactivity ...")
TickEvictNotice(g) ==
    /\ Alive
    /\ tick[g].pc = "evict_notice"
    /\ CanWrite(stream[tick[g].cur])
    /\ stream' = [stream EXCEPT ![tick[g].cur] =
                    [Wrote(@) EXCEPT !.notices = @ + 1]]
    /\ tick' = [tick EXCEPT ![g].pc = "evict_check"]
    /\ UNCHANGED <<Games, game, renders, Player, hc, inp, now, fatal,
                   lastInput, world>>

\* g.RemoveSession(session): the membership test; when it fails RemoveSession
\* returns and so does Update.
TickEvictCheck(g) ==
    /\ Alive
    /\ tick[g].pc = "evict_check"
    /\ \E seen \in BOOLEAN : IF game[g].hashWriting /\ seen
       THEN Die("concurrent map read and map write")
       ELSE /\ tick' = [tick EXCEPT ![g] =
                 IF RemoveSessionGuard(g, tick[g].cur)
                 THEN [@ EXCEPT !.pc = "evict_write", !.ok = TRUE]
                 ELSE [TickDone(@) EXCEPT !.ok = FALSE]]
            /\ UNCHANGED <<Games, game, renders, Player, hc, inp, stream, now,
                           fatal, lastInput, world>>

TickEvictWrite(g) ==
    /\ Alive
    /\ tick[g].pc = "evict_write"
    /\ CanWrite(stream[tick[g].cur])
    /\ stream' = [stream EXCEPT ![tick[g].cur] = EndOfLine(@)]
    /\ tick' = [tick EXCEPT ![g].pc = "evict_delete"]
    /\ UNCHANGED <<Games, game, renders, Player, hc, inp, now, fatal,
                   lastInput, world>>

TickEvictDelete(g) ==
    /\ Alive
    /\ tick[g].pc = "evict_delete"
    /\ \E seen \in BOOLEAN : IF game[g].hashWriting /\ seen
       THEN Die("concurrent map writes")
       ELSE /\ game' = [game EXCEPT ![g].Sessions = @ \ {tick[g].cur},
                                    ![g].hashWriting = TRUE]
            /\ tick' = [tick EXCEPT ![g].pc = "evict_delend"]
            /\ UNCHANGED <<Games, renders, Player, hc, inp, stream, now,
                           fatal, lastInput, world>>

TickEvictDelEnd(g) ==
    /\ Alive
    /\ tick[g].pc = "evict_delend"
    /\ game' = [game EXCEPT ![g].hashWriting = FALSE]
    /\ tick' = [tick EXCEPT ![g].pc = "evict_close"]
    /\ UNCHANGED <<Games, renders, Player, hc, inp, stream, now, fatal,
                   lastInput, world>>

\* s.c.Close(); RemoveSession returns; `return` ends Update
TickEvictClose(g) ==
    /\ Alive
    /\ tick[g].pc = "evict_close"
    /\ stream' = [stream EXCEPT ![tick[g].cur] = Closed(@)]
    /\ tick' = [tick EXCEPT ![g] = TickDone(@)]
    /\ UNCHANGED <<Games, game, renders, Player, hc, inp, now, fatal,
                   lastInput, world>>

\* The Players whose cell is a key of trailCoordMap, among a fresh
\* g.players().
Collided(g) ==
    {s \in game[g].Sessions : Cell(Player[s].Pos) \in tick[g].trailCoordMap}

\* The second loop of Update: every Player of a fresh g.players() whose cell
\* is in trailCoordMap is restarted.  Update returns.
TickCollide(g, starts) ==
    /\ Alive
    /\ tick[g].pc = "loop2"
    /\ \E seen \in BOOLEAN : IF game[g].hashWriting /\ seen
       THEN Die("concurrent map iteration and map write")
       ELSE /\ \E f \in [Collided(g) -> starts] :
                 Player' = [s \in DOMAIN Player |->
                              IF s \in Collided(g)
                              THEN NewPlayer(Player[s].Color, f[s], now)
                              ELSE Player[s]]
            /\ tick' = [tick EXCEPT ![g] =
                 [TickDone(@) EXCEPT !.advanced = @ \ Collided(g),
                                     !.collided = Collided(g)]]
            /\ UNCHANGED <<Games, game, renders, hc, inp, stream, now, fatal,
                           lastInput, world>>

\* ----------------------------------------------- Game.Run: the redraw loop
\* for s := range g.Sessions { go g.Render(s) }
Redraw(g) ==
    /\ Alive
    /\ g \in DOMAIN game
    /\ \E seen \in BOOLEAN : IF game[g].hashWriting /\ seen
       THEN Die("concurrent map iteration and map write")
       ELSE /\ game[g].Sessions \ renders # {}
            /\ renders' = renders \cup game[g].Sessions
            /\ UNCHANGED <<Games, game, tick, Player, hc, inp, stream, now,
                           fatal, lastInput, world>>

\* g.Render(s): worldString(s) reads g.players(), io.Copy writes the frame;
\* the call taken as one step.
Render(s) ==
    /\ Alive
    /\ s \in renders
    /\ CanWrite(stream[s])
    /\ \E seen \in BOOLEAN : IF game[hc[s].g].hashWriting /\ seen
       THEN Die("concurrent map iteration and map write")
       ELSE /\ renders' = renders \ {s}
            /\ stream' = [stream EXCEPT ![s] = Wrote(@)]
            /\ UNCHANGED <<Games, game, tick, Player, hc, inp, now, fatal,
                           lastInput, world>>

\* g.Render(s) step by step.  worldString: `if len(g.players()) > 1`.
WorldCount(s) ==
    /\ Alive
    /\ s \in renders
    /\ world[s].pc = "idle"
    /\ \E seen \in BOOLEAN : IF game[hc[s].g].hashWriting /\ seen
       THEN Die("concurrent map iteration and map write")
       ELSE /\ world' = [world EXCEPT ![s] =
                           [NoCall EXCEPT !.pc = "scores",
                                          !.counted = game[hc[s].g].Sessions]]
            /\ UNCHANGED <<Games, game, tick, renders, Player, hc, inp, stream,
                           now, fatal, lastInput>>

\* worldString: `for player := range g.players()` that collects the other
\* players' scores; not reached when the count was at most 1.
WorldScores(s) ==
    /\ Alive
    /\ world[s].pc = "scores"
    /\ IF Cardinality(world[s].counted) > 1
       THEN \E seen \in BOOLEAN : IF game[hc[s].g].hashWriting /\ seen
            THEN Die("concurrent map iteration and map write")
            ELSE /\ world' = [world EXCEPT
                                ![s].pc = "draw",
                                ![s].listed = game[hc[s].g].Sessions]
                 /\ UNCHANGED <<Games, game, tick, renders, Player, hc, inp,
                                stream, now, fatal, lastInput>>
       ELSE /\ world' = [world EXCEPT ![s].pc = "draw"]
            /\ UNCHANGED <<Games, game, tick, renders, Player, hc, inp, stream,
                           now, fatal, lastInput>>

\* worldString: `for player := range g.players()` that loads the players
\* and their trails into the buffer.
WorldDraw(s) ==
    /\ Alive
    /\ world[s].pc = "draw"
    /\ \E seen \in BOOLEAN : IF game[hc[s].g].hashWriting /\ seen
       THEN Die("concurrent map iteration and map write")
       ELSE /\ world' = [world EXCEPT ![s].pc = "copy",
                                      ![s].drawn = game[hc[s].g].Sessions]
            /\ UNCHANGED <<Games, game, tick, renders, Player, hc, inp, stream,
                           now, fatal, lastInput>>

\* Render: io.Copy(s, &b); the goroutine ends.
WorldCopy(s) ==
    /\ Alive
    /\ world[s].pc = "copy"
    /\ CanWrite(stream[s])
    /\ stream' = [stream EXCEPT ![s] = Wrote(@)]
    /\ renders' = renders \ {s}
    /\ world' = [world EXCEPT ![s].pc = "idle"]
    /\ UNCHANGED <<Games, game, tick, Player, hc, inp, now, fatal, lastInput>>

\* ------------------------------------------------------------ environment
\* The participant presses a key: one more rune for ReadRune.
Recv(c) ==
    /\ Alive
    /\ inp[c].pc # "none"
    /\ stream[c].peer = "up"
    /\ stream[c].closed = 0
    /\ stream[c].buffered < MaxBuffered
    /\ stream' = [stream EXCEPT ![c].buffered = @ + 1]
    /\ UNCHANGED <<Games, game, tick, renders, Player, hc, inp, now, fatal,
                   lastInput, world>>

\* The participant presses the key that sends rune r, once the rune sent
\* before has been read: stream[c].rune is the rune ReadRune returns next, or
\* has returned last.
RecvKey(c, r) ==
    /\ Alive
    /\ inp[c].pc # "none"
    /\ stream[c].peer = "up"
    /\ stream[c].closed = 0
    /\ stream[c].buffered = 0
    /\ stream' = [stream EXCEPT ![c].buffered = @ + 1, ![c].rune = r]
    /\ UNCHANGED <<Games, game, tick, renders, Player, hc, inp, now, fatal,
                   lastInput, world>>

\* The participant's connection drops.
PeerClose(c) ==
    /\ Alive
    /\ stream[c].peer = "up"
    /\ stream' = [stream EXCEPT ![c].peer = "gone"]
    /\ UNCHANGED <<Games, game, tick, renders, Player, hc, inp, now, fatal,
                   lastInput, world>>

\* The participant's end stops taking what the server writes, for good.
PeerStall(c) ==
    /\ Alive
    /\ stream[c].peer = "up"
    /\ stream' = [stream EXCEPT ![c].peer = "stalled"]
    /\ UNCHANGED <<Games, game, tick, renders, Player, hc, inp, now, fatal,
                   lastInput, world>>

\* Time passes.
Advance(t) ==
    /\ Alive
    /\ t > now
    /\ now' = t
    /\ UNCHANGED <<Games, game, tick, renders, Player, hc, inp, stream, fatal,
                   lastInput, world>>

\* ---------------------------------------------------------- specification
\* Connections arrive and are admitted by concurrent HandleChannel calls while
\* participants type and quit.  The clock stands still, so no tick is
\* delivered.
Next ==
    \/ \E c \in Conns : HCGet(c)
    \/ \E c \in Conns : HCNew(c)
    \/ \E c \in Conns : HCSession(c, {Origin})
    \/ \E c \in Conns : HCAddWrite(c)
    \/ \E c \in Conns : HCAddInsert(c)
    \/ \E c \in Conns : HCAddEnd(c)
    \/ \E c \in Conns : InRead(c, {"quit", "other"})
    \/ \E c \in Conns : InQuitCount(c)
    \/ \E c \in Conns : InQuitDelete(c)
    \/ \E c \in Conns : InRmCheck(c)
    \/ \E c \in Conns : InRmWrite(c)
    \/ \E c \in Conns : InRmDelete(c)
    \/ \E c \in Conns : InRmDelEnd(c)
    \/ \E c \in Conns : InRmClose(c)
    \/ \E c \in Conns : Recv(c)

Spec == Init /\ [][Next]_vars

\* A Game that is running: its Sessions were admitted one after the other and
\* the first tick, which restarts every Player, is just over.  The clock is
\* counted from there.
RunConns == 1 .. RunSessions

Running(conns, starts) ==
    /\ Games = [n \in Names |-> IF n = 1 THEN 1 ELSE NoGame]
    /\ game = (1 :> [Name |-> 1, HighScore |-> 0, Sessions |-> conns,
                     hashWriting |-> FALSE])
    /\ tick = (1 :> [NoTick EXCEPT !.lastUpdate = 0])
    /\ renders = {}
    /\ Player \in [conns -> {NewPlayer(c, st, 0) :
                               c \in Palette, st \in starts}]
    /\ \A c \in conns : Player[c].Color = playerColors[c]
    /\ hc = [c \in Conns |-> [pc |-> "done", g |-> 1]]
    /\ inp = [c \in Conns |-> [pc |-> "read", ok |-> FALSE, ignored |-> FALSE]]
    /\ stream = [c \in Conns |->
                   [closed |-> 0, endMsgs |-> 0, notices |-> 0, late |-> FALSE,
                    buffered |-> 0, peer |-> "up", rune |-> 0]]
    /\ now = 0
    /\ fatal = "none"
    /\ lastInput = [c \in Conns |-> 0]
    /\ world = [c \in Conns |-> NoCall]

InitRun == Running(RunConns, {LastCell})

NextRun ==
    \/ \E c \in RunConns : InRead(c, Runes)
    \/ \E c \in RunConns : InQuitCount(c)
    \/ \E c \in RunConns : InQuitDelete(c)
    \/ \E c \in RunConns : InRmCheck(c)
    \/ \E c \in RunConns : InRmWrite(c)
    \/ \E c \in RunConns : InRmDelete(c)
    \/ \E c \in RunConns : InRmDelEnd(c)
    \/ \E c \in RunConns : InRmClose(c)
    \/ \E g \in DOMAIN tick : TickBegin(g)
    \/ \E g \in DOMAIN tick : \E s \in RunConns : TickPlayer(g, s, {Origin})
    \/ \E g \in DOMAIN tick : TickEvictNotice(g)
    \/ \E g \in DOMAIN tick : TickEvictCheck(g)
    \/ \E g \in DOMAIN tick : TickEvictWrite(g)
    \/ \E g \in DOMAIN tick : TickEvictDelete(g)
    \/ \E g \in DOMAIN tick : TickEvictDelEnd(g)
    \/ \E g \in DOMAIN tick : TickEvictClose(g)
    \/ \E g \in DOMAIN tick : TickCollide(g, {Origin})
    \/ \E g \in DOMAIN game : Redraw(g)
    \/ \E s \in RunConns : Render(s)
    \/ \E c \in RunConns : Recv(c)
    \/ \E c \in RunConns : PeerClose(c)
    \/ \E t \in Times : Advance(t)

SpecRun == InitRun /\ [][NextRun]_vars

\* The same Game, its participant typing little: the runes ReadRune returns
\* are a quit key, a turn to the right, or a key that does nothing.
QuitRunes == {"quit", "other", "PlayerRight"}

\* The steps of the handleSession goroutine of connection c.
InputTask(c) ==
    \/ InRead(c, QuitRunes)
    \/ InQuitCount(c)
    \/ InQuitDelete(c)
    \/ InRmCheck(c)
    \/ InRmWrite(c)
    \/ InRmDelete(c)
    \/ InRmDelEnd(c)
    \/ InRmClose(c)

NextQuit ==
    \/ \E c \in RunConns : InRead(c, QuitRunes)
    \/ \E c \in RunConns : InQuitCount(c)
    \/ \E c \in RunConns : InQuitDelete(c)
    \/ \E c \in RunConns : InRmCheck(c)
    \/ \E c \in RunConns : InRmWrite(c)
    \/ \E c \in RunConns : InRmDelete(c)
    \/ \E c \in RunConns : InRmDelEnd(c)
    \/ \E c \in RunConns : InRmClose(c)
    \/ \E g \in DOMAIN tick : TickBegin(g)
    \/ \E g \in DOMAIN tick : \E s \in RunConns : TickPlayer(g, s, {Origin})
    \/ \E g \in DOMAIN tick : TickEvictNotice(g)
    \/ \E g \in DOMAIN tick : TickEvictCheck(g)
    \/ \E g \in DOMAIN tick : TickEvictWrite(g)
    \/ \E g \in DOMAIN tick : TickEvictDelete(g)
    \/ \E g \in DOMAIN tick : TickEvictDelEnd(g)
    \/ \E g \in DOMAIN tick : TickEvictClose(g)
    \/ \E g \in DOMAIN tick : TickCollide(g, {Origin})
    \/ \E g \in DOMAIN game : Redraw(g)
    \/ \E s \in RunConns : Render(s)
    \/ \E c \in RunConns : Recv(c)
    \/ \E c \in RunConns : PeerClose(c)
    \/ \E t \in Times : Advance(t)

\* The Go scheduler runs every goroutine that can take a step: the input task
\* is not left waiting for ever while one of its steps is possible.
SpecQuit ==
    /\ InitRun
    /\ [][NextQuit]_vars
    /\ \A c \in RunConns : WF_vars(InputTask(c))

\* A Game whose participants stay connected; the last of them has walked away
\* from the keyboard, the others steer.
PlayConns == 1 .. PlaySessions

Steering == PlayConns \ {PlaySessions}

InitPlay == Running(PlayConns, {Origin})

NextPlay ==
    \/ \E c \in Steering : InRead(c, Directions)
    \/ \E c \in Steering : Recv(c)
    \/ \E g \in DOMAIN tick : TickBegin(g)
    \/ \E g \in DOMAIN tick : \E s \in PlayConns : TickPlayer(g, s, {Origin})
    \/ \E g \in DOMAIN tick : TickEvictNotice(g)
    \/ \E g \in DOMAIN tick : TickEvictCheck(g)
    \/ \E g \in DOMAIN tick : TickEvictWrite(g)
    \/ \E g \in DOMAIN tick : TickEvictDelete(g)
    \/ \E g \in DOMAIN tick : TickEvictDelEnd(g)
    \/ \E g \in DOMAIN tick : TickEvictClose(g)
    \/ \E g \in DOMAIN tick : TickCollide(g, {Origin})
    \/ \E t \in Times : Advance(t)

SpecPlay == InitPlay /\ [][NextPlay]_vars

\* A Game with participants who steer and stay, every restart drawing its
\* start anywhere NewPlayer can.
NextSpawn ==
    \/ \E c \in RunConns : InRead(c, Directions)
    \/ \E c \in RunConns : Recv(c)
    \/ \E g \in DOMAIN tick : TickBegin(g)
    \/ \E g \in DOMAIN tick : \E s \in RunConns : TickPlayer(g, s, Starts)
    \/ \E g \in DOMAIN tick : TickEvictNotice(g)
    \/ \E g \in DOMAIN tick : TickEvictCheck(g)
    \/ \E g \in DOMAIN tick : TickEvictWrite(g)
    \/ \E g \in DOMAIN tick : TickEvictDelete(g)
    \/ \E g \in DOMAIN tick : TickEvictDelEnd(g)
    \/ \E g \in DOMAIN tick : TickEvictClose(g)
    \/ \E g \in DOMAIN tick : TickCollide(g, Starts)
    \/ \E t \in Times : Advance(t)

SpecSpawn == InitRun /\ [][NextSpawn]_vars

\* A Game whose ticks come on time, long enough for a point to be scored: the
\* first participant steers, the others have walked away.
ScoreConns == 1 .. ScoreSessions

InitScore == Running(ScoreConns, {Origin})

OnTime ==
    /\ now < ScoreTicks * TickDelta
    /\ Advance(now + TickDelta)

NextScore ==
    \/ InRead(1, Directions)
    \/ Recv(1)
    \/ \E g \in DOMAIN tick : TickBegin(g)
    \/ \E g \in DOMAIN tick : \E s \in ScoreConns : TickPlayer(g, s, {Origin})
    \/ \E g \in DOMAIN tick : TickCollide(g, {Origin})
    \/ OnTime

SpecScore == InitScore /\ [][NextScore]_vars

\* A Game with as many Sessions as the palette has colors, admitted earlier in
\* whatever interleaving (so with whatever colors); the model does not follow
\* their connections.  Further connections arrive.
Seated == MaxConns + 1 .. MaxConns + Len(playerColors)

InitFull ==
    /\ Games = [n \in Names |-> IF n = 1 THEN MaxConns + 1 ELSE NoGame]
    /\ game = (MaxConns + 1 :> [Name |-> 1, HighScore |-> 0,
                                Sessions |-> Seated, hashWriting |-> FALSE])
    /\ tick = (MaxConns + 1 :> [NoTick EXCEPT !.lastUpdate = 0])
    /\ renders = {}
    /\ Player \in [Seated -> {NewPlayer(c, Origin, 0) : c \in Palette}]
    /\ hc = [c \in Conns |-> [pc |-> "start", g |-> NoGame]]
    /\ inp = [c \in Conns |-> [pc |-> "none", ok |-> FALSE, ignored |-> FALSE]]
    /\ stream = [c \in Conns |->
                   [closed |-> 0, endMsgs |-> 0, notices |-> 0, late |-> FALSE,
                    buffered |-> 0, peer |-> "up", rune |-> 0]]
    /\ now = 0
    /\ fatal = "none"
    /\ lastInput = [c \in Conns |-> 0]
    /\ world = [c \in Conns |-> NoCall]

NextFull ==
    \/ \E c \in Conns : HCGet(c)
    \/ \E c \in Conns : HCNew(c)
    \/ \E c \in Conns : HCSession(c, {Origin})
    \/ \E c \in Conns : HCAddWrite(c)
    \/ \E c \in Conns : HCAddInsert(c)
    \/ \E c \in Conns : HCAddEnd(c)

SpecFull == InitFull /\ [][NextFull]_vars

\* A Game whose participants have walked away and whose peers can stall.
NextStall ==
    \/ \E g \in DOMAIN tick : TickBegin(g)
    \/ \E g \in DOMAIN tick : \E s \in PlayConns : TickPlayer(g, s, {Origin})
    \/ \E g \in DOMAIN tick : TickEvictNotice(g)
    \/ \E g \in DOMAIN tick : TickEvictCheck(g)
    \/ \E g \in DOMAIN tick : TickEvictWrite(g)
    \/ \E g \in DOMAIN tick : TickEvictDelete(g)
    \/ \E g \in DOMAIN tick : TickEvictDelEnd(g)
    \/ \E g \in DOMAIN tick : TickEvictClose(g)
    \/ \E g \in DOMAIN tick : TickCollide(g, {Origin})
    \/ \E g \in DOMAIN game : Redraw(g)
    \/ \E s \in PlayConns : Render(s)
    \/ \E c \in PlayConns : PeerStall(c)
    \/ \E t \in Times : Advance(t)

SpecStall == InitPlay /\ [][NextStall]_vars

\* A Game whose frames are drawn while the last of its participants quits;
\* the clock stands still.
NextDraw ==
    \/ \E c \in PlayConns \ Steering : InRead(c, {"quit"})
    \/ \E c \in PlayConns \ Steering : InQuitCount(c)
    \/ \E c \in PlayConns \ Steering : InQuitDelete(c)
    \/ \E c \in PlayConns \ Steering : InRmCheck(c)
    \/ \E c \in PlayConns \ Steering : InRmWrite(c)
    \/ \E c \in PlayConns \ Steering : InRmDelete(c)
    \/ \E c \in PlayConns \ Steering : InRmDelEnd(c)
    \/ \E c \in PlayConns \ Steering : InRmClose(c)
    \/ \E c \in PlayConns \ Steering : Recv(c)
    \/ \E g \in DOMAIN game : Redraw(g)
    \/ \E s \in PlayConns : WorldCount(s)
    \/ \E s \in PlayConns : WorldScores(s)
    \/ \E s \in PlayConns : WorldDraw(s)
    \/ \E s \in PlayConns : WorldCopy(s)

SpecDraw == InitPlay /\ [][NextDraw]_vars

\* A Game whose participants steer while its frames are drawn; the clock
\* stands still.
NextTurn ==
    \/ \E c \in PlayConns : InReadTurn(c)
    \/ \E c \in PlayConns : InSetMarker(c)
    \/ \E c \in PlayConns : InDidAction(c)
    \/ \E c \in PlayConns : Recv(c)
    \/ \E g \in DOMAIN game : Redraw(g)
    \/ \E s \in PlayConns : Render(s)

SpecTurn == InitPlay /\ [][NextTurn]_vars

\* The first connections arrive and are admitted while the clock runs: the
\* Game made for them starts its game loop.
NextStart ==
    \/ \E c \in RunConns : HCGet(c)
    \/ \E c \in RunConns : HCNew(c)
    \/ \E c \in RunConns : HCSession(c, {Origin})
    \/ \E c \in RunConns : HCAddWrite(c)
    \/ \E c \in RunConns : HCAddInsert(c)
    \/ \E c \in RunConns : HCAddEnd(c)
    \/ \E g \in DOMAIN tick : TickBegin(g)
    \/ \E g \in DOMAIN tick : \E s \in RunConns : TickPlayer(g, s, {Origin})
    \/ \E g \in DOMAIN tick : TickEvictNotice(g)
    \/ \E g \in DOMAIN tick : TickEvictCheck(g)
    \/ \E g \in DOMAIN tick : TickEvictWrite(g)
    \/ \E g \in DOMAIN tick : TickEvictDelete(g)
    \/ \E g \in DOMAIN tick : TickEvictDelEnd(g)
    \/ \E g \in DOMAIN tick : TickEvictClose(g)
    \/ \E g \in DOMAIN tick : TickCollide(g, {Origin})
    \/ \E t \in Times : Advance(t)

SpecStart == Init /\ [][NextStart]_vars

\* A Game whose participant steers and stays while its frames are drawn, the
\* first loop of the tick taken statement by statement.
NextMove ==
    \/ \E c \in RunConns : InRead(c, Directions)
    \/ \E c \in RunConns : Recv(c)
    \/ \E g \in DOMAIN tick : TickBegin(g)
    \/ \E g \in DOMAIN tick : \E s \in RunConns : TickMove(g, s)
    \/ \E g \in DOMAIN tick : TickCheck(g, {Origin})
    \/ \E g \in DOMAIN tick : TickEvictNotice(g)
    \/ \E g \in DOMAIN tick : TickEvictCheck(g)
    \/ \E g \in DOMAIN tick : TickEvictWrite(g)
    \/ \E g \in DOMAIN tick : TickEvictDelete(g)
    \/ \E g \in DOMAIN tick : TickEvictDelEnd(g)
    \/ \E g \in DOMAIN tick : TickEvictClose(g)
    \/ \E g \in DOMAIN tick : TickCollide(g, {Origin})
    \/ \E g \in DOMAIN game : Redraw(g)
    \/ \E s \in RunConns : Render(s)
    \/ \E t \in Times : Advance(t)

SpecMove == InitRun /\ [][NextMove]_vars

\* A Game whose participants press keys while the clock goes on: those who
\* steer any key, the last of them Ctrl-C only; no tick comes in between.
NextKeys ==
    \/ \E c \in Steering : \E r \in Keys : RecvKey(c, r)
    \/ \E c \in PlayConns \ Steering : RecvKey(c, keyCtrlC)
    \/ \E c \in PlayConns : InKey(c)
    \/ \E c \in PlayConns : InQuitCount(c)
    \/ \E c \in PlayConns : InQuitDelete(c)
    \/ \E c \in PlayConns : InRmCheck(c)
    \/ \E c \in PlayConns : InRmWrite(c)
    \/ \E c \in PlayConns : InRmDelete(c)
    \/ \E c \in PlayConns : InRmDelEnd(c)
    \/ \E c \in PlayConns : InRmClose(c)
    \/ \E t \in Times : Advance(t)

SpecKeys == InitPlay /\ [][NextKeys]_vars

\* Two Games side by side, as they are once a first Game has been full: the
\* first with the participant of connection 1, the second with a participant
\* whose connection the model does not follow.  Both tick; further connections
\* arrive and are admitted to either; the participant of connection 1 turns
\* right or quits.
Guest == MaxConns + 1

TwoTimes == {TickDelta}

InitTwo ==
    /\ Games = [n \in Names |-> IF n = 1 THEN 1 ELSE Guest]
    /\ game = (1 :> [Name |-> 1, HighScore |-> 0, Sessions |-> {1},
                     hashWriting |-> FALSE])
              @@ (Guest :> [Name |-> NumNames, HighScore |-> 0,
                            Sessions |-> {Guest}, hashWriting |-> FALSE])
    /\ tick = (1 :> [NoTick EXCEPT !.lastUpdate = 0])
              @@ (Guest :> [NoTick EXCEPT !.lastUpdate = 0])
    /\ renders = {}
    /\ Player = (1 :> NewPlayer(playerColors[1], Origin, 0))
                @@ (Guest :> NewPlayer(playerColors[1], Origin, 0))
    /\ hc = [c \in Conns |-> IF c = 1 THEN [pc |-> "done", g |-> 1]
                              ELSE [pc |-> "start", g |-> NoGame]]
    /\ inp = [c \in Conns |->
                [pc |-> IF c = 1 THEN "read" ELSE "none", ok |-> FALSE,
                 ignored |-> FALSE]]
    /\ stream = [c \in Conns |->
                   [closed |-> 0, endMsgs |-> 0, notices |-> 0, late |-> FALSE,
                    buffered |-> 0, peer |-> "up", rune |-> 0]]
    /\ now = 0
    /\ fatal = "none"
    /\ lastInput = [c \in Conns |-> 0]
    /\ world = [c \in Conns |-> NoCall]

NextTwo ==
    \/ \E c \in Conns \ RunConns : HCGet(c)
    \/ \E c \in Conns \ RunConns : HCSession(c, {Origin})
    \/ \E c \in Conns \ RunConns : HCAddWrite(c)
    \/ \E c \in Conns \ RunConns : HCAddInsert(c)
    \/ \E c \in Conns \ RunConns : HCAddEnd(c)
    \/ \E c \in RunConns : InRead(c, {"PlayerRight", "quit"})
    \/ \E c \in RunConns : InQuitCount(c)
    \/ \E c \in RunConns : InQuitDelete(c)
    \/ \E c \in RunConns : InRmCheck(c)
    \/ \E c \in RunConns : InRmWrite(c)
    \/ \E c \in RunConns : InRmDelete(c)
    \/ \E c \in RunConns : InRmDelEnd(c)
    \/ \E c \in RunConns : InRmClose(c)
    \/ \E c \in RunConns : Recv(c)
    \/ \E g \in DOMAIN tick : TickBegin(g)
    \/ \E g \in DOMAIN tick : \E s \in DOMAIN Player :
          TickPlayer(g, s, {Origin})
    \/ \E g \in DOMAIN tick : TickCollide(g, {Origin})
    \/ \E t \in TwoTimes : Advance(t)

SpecTwo == InitTwo /\ [][NextTwo]_vars

\* Player.Update on its own.  The Player is anywhere a game can have brought
\* it: in a cell of the grid, at the centre of the cell, 0.3 of a cell below
\* it, just short of its right edge or, in the first column or row, a tick's travel to the left of it or
\* two ticks' travel above it (int() truncates toward zero: that is still
\* cell 0); heading any way; its Trail empty (it has not left its first cell)
\* or with the cell it came from, a neighbour, at its head.  One tick, after
\* a normal period (17 ms) or a late one, runs player.Update.
GridCells == (0 .. WorldW - 1) \X (0 .. WorldH - 1)

Neighbours(b) ==
    {a \in GridCells :
        \/ a[2] = b[2] /\ (a[1] - b[1]) \in {-1, 1}
        \/ a[1] = b[1] /\ (a[2] - b[2]) \in {-1, 1}}

AxisGlyph(a, b) ==
    IF a[2] = b[2] THEN "playerTrailHorizontal" ELSE "playerTrailVertical"

TrailsInto(b) ==
    {<<>>} \cup
    {<<[Marker |-> AxisGlyph(a, b), Pos |-> PositionFromInt(a[1], a[2])]>> :
        a \in Neighbours(b)}

OffsetsX(b) ==
    {0, 490} \cup (IF b[1] = 0 THEN {-horizontalPlayerSpeed * TickDelta} ELSE {})

OffsetsY(b) ==
    {0, 300} \cup (IF b[2] = 0 THEN {-2 * verticalPlayerSpeed * TickDelta}
                   ELSE {})

Underway ==
    UNION {{[Marker |-> RuneOf(d), LastAction |-> 0, Direction |-> d,
             Color |-> playerColors[1],
             Pos |-> [X |-> b[1] * CellUnit + ox, Y |-> b[2] * CellUnit + oy],
             Trail |-> tr, score |-> 0, HighScore |-> 0] :
              d \in Directions, ox \in OffsetsX(b), oy \in OffsetsY(b),
              tr \in TrailsInto(b)} :
           b \in GridCells}

Deltas == {17, TickDelta}

InitUpdate ==
    /\ Games = [n \in Names |-> IF n = 1 THEN 1 ELSE NoGame]
    /\ game = (1 :> [Name |-> 1, HighScore |-> 0, Sessions |-> {1},
                     hashWriting |-> FALSE])
    /\ tick = (1 :> [NoTick EXCEPT !.lastUpdate = 0])
    /\ renders = {}
    /\ Player \in [{1} -> Underway]
    /\ hc = [c \in Conns |-> [pc |-> "done", g |-> 1]]
    /\ inp = [c \in Conns |-> [pc |-> "read", ok |-> FALSE, ignored |-> FALSE]]
    /\ stream = [c \in Conns |->
                   [closed |-> 0, endMsgs |-> 0, notices |-> 0, late |-> FALSE,
                    buffered |-> 0, peer |-> "up", rune |-> 0]]
    /\ now = 0
    /\ fatal = "none"
    /\ lastInput = [c \in Conns |-> 0]
    /\ world = [c \in Conns |-> NoCall]

NextUpdate ==
    \/ \E t \in Deltas : Advance(t)
    \/ TickBegin(1)
    \/ TickMove(1, 1)

SpecUpdate == InitUpdate /\ [][NextUpdate]_vars

\* ------------------------------------------------------------- properties
\* C1: no two Sessions registered in the same Game have the same Color.
C1_ColorsUnique ==
    \A g \in DOMAIN game : \A c1, c2 \in game[g].Sessions :
        c1 # c2 => Player[c1].Color # Player[c2].Color

\* C2: the accesses to a Game's session set are linearized: no read by the
\* tick, the redraw or a removal's membership test, and no second mutation,
\* overlaps an insert or a delete that is under way.  An overlap is what the
\* map's hashWriting check reports when it sees it.
C2_SessionSetLinearized ==
    fatal \notin {"concurrent map iteration and map write",
                  "concurrent map read and map write",
                  "concurrent map writes"}

\* A RemoveSession call on a Session of g is past its membership test.
Removing(g) ==
    \/ tick[g].pc \in {"evict_write", "evict_delete", "evict_delend",
                       "evict_close"}
    \/ \E c \in Conns :
         /\ hc[c].g = g
         /\ inp[c].pc \in {"rm_write", "rm_delete", "rm_delend", "rm_close"}

\* A HandleChannel call holds g and has not registered its Session yet.
Admitting(g) ==
    \E c \in Conns : hc[c].g = g /\ hc[c].pc \notin {"start", "new", "done"}

\* C3: once a removal (quit or eviction) has left a Game with no Session, the
\* Game is not an entry of gm.Games.
C3_EmptyGameNotListed ==
    \A g \in DOMAIN game :
        (game[g].Sessions = {} /\ ~Removing(g) /\ ~Admitting(g))
            => ~InTable(g)

\* The Session's input task has seen a quit key and is between the count test
\* and the end of the removal.
Quitting(c) ==
    inp[c].pc \in {"quit_delete", "rm_check", "rm_write", "rm_delete",
                   "rm_delend"}

NamesDistinct ==
    \A g1, g2 \in DOMAIN game : g1 # g2 => game[g1].Name # game[g2].Name

\* C4: every Game with a registered Session (one that is not in the middle of
\* quitting) is an entry of gm.Games, whatever the interleaving of admissions
\* and quits; Games of the same name left aside.
C4_GameWithSessionsListed ==
    NamesDistinct =>
        \A g \in DOMAIN game :
            (\E c \in game[g].Sessions : ~Quitting(c)) => InTable(g)

\* C5: HandleChannel inserts a new Game into gm.Games only when no Game of the
\* table has an available color at that moment.
C5_NewGameOnlyWhenFull ==
    [][\A c \in Conns :
         (hc[c].pc = "new" /\ hc'[c].pc = "session")
             => GamesWithAvailability = {}]_vars

\* C6: whoever removes a Session, and however the removals race, the
\* termination message is written to its stream once and Close is called once.
C6_RemovedOnce ==
    \A c \in Conns : stream[c].endMsgs <= 1 /\ stream[c].closed <= 1

\* C7: a RemoveSession call on a Session that is not in the session set
\* returns from its membership test: it writes nothing to the stream, calls no
\* Close and leaves the session set and the Players as they are.
C7_RemoveAbsentIsNoOp ==
    [][/\ \A c \in Conns :
            (/\ inp[c].pc = "rm_check"
             /\ inp'[c].pc # "rm_check"
             /\ c \notin game[hc[c].g].Sessions)
                => /\ inp'[c].pc = "read"
                   /\ stream' = stream
                   /\ game' = game
                   /\ Player' = Player
       /\ \A g \in DOMAIN tick :
            (/\ tick[g].pc = "evict_check"
             /\ tick'[g].pc # "evict_check"
             /\ tick[g].cur \notin game[g].Sessions)
                => /\ tick'[g].pc = "wait"
                   /\ stream' = stream
                   /\ game' = game
                   /\ Player' = Player]_vars

\* The input task has removed its Session (one message, one Close), and the
\* tick, which had written its inactivity notice, has then called
\* RemoveSession on it and returned without a second message or Close.
C7_Witness ==
    \E c \in RunConns :
        /\ c \notin game[1].Sessions
        /\ inp[c].ok
        /\ inp[c].pc = "read"
        /\ stream[c].notices = 1
        /\ tick[1].pc = "wait"
        /\ tick[1].cur = c
        /\ ~tick[1].ok
        /\ stream[c].endMsgs = 1
        /\ stream[c].closed = 1

\* C8: a Session whose participant has given no accepted direction command
\* for more than playerTimeout is evicted by the tick that finds it so: a
\* tick that ran to its end without evicting anybody leaves no such Session
\* registered, restarts of its Player notwithstanding.
C8_IdleSessionEvicted ==
    \A g \in DOMAIN tick :
        (tick[g].pc = "wait" /\ tick[g].cur = 0)
            => \A s \in game[g].Sessions :
                   tick[g].now - lastInput[s] <= playerTimeout

\* C9: once ReadRune has failed and the input task has stopped, the Session
\* is not in the Game's session set.
C9_ReadErrorRemoves ==
    \A c \in Conns :
        inp[c].pc = "exit" => c \notin game[hc[c].g].Sessions

\* C10: when a tick ends, no registered Session's Player that the tick has
\* moved, and not restarted, is in a cell of the Trail of a registered
\* Session's Player.
C10_CollisionsRestarted ==
    \A g \in DOMAIN tick :
        tick[g].pc = "wait"
            => \A s \in tick[g].advanced \cap game[g].Sessions :
                   Cell(Player[s].Pos) \notin
                       UNION {TrailCells(Player[r]) : r \in game[g].Sessions}

\* C11: when a tick ends, no two registered Sessions' Players that the tick
\* has moved, and not restarted, are in the same cell.
C11_SameCellRestarted ==
    \A g \in DOMAIN tick :
        tick[g].pc = "wait"
            => \A s1, s2 \in tick[g].advanced \cap game[g].Sessions :
                   s1 # s2 => Cell(Player[s1].Pos) # Cell(Player[s2].Pos)

\* The first loop of g's tick handles Session s in this step.
Handles(g, s) ==
    /\ tick[g].pc = "loop1"
    /\ s \in tick[g].todo
    /\ tick'[g] # tick[g]
    /\ fatal' = fatal
    /\ \/ s \notin tick'[g].todo
       \/ tick'[g].pc = "evict_notice" /\ tick'[g].cur = s

\* A Player as a restart leaves it: where NewPlayer put it, not yet moved.
JustStarted(p) ==
    /\ p.Pos \in Starts
    /\ p.Direction = "PlayerDown"
    /\ p.LastAction = now

C14_RestartKeepsSession ==
    [][\A g \in DOMAIN tick : \A s \in DOMAIN Player :
         (\/ /\ Handles(g, s)
             /\ LET pos == Moved(Player[s], tick[g].delta)
                IN  \/ RoundX(pos) < 0 \/ RoundX(pos) >= WorldW
                    \/ RoundY(pos) < 0 \/ RoundY(pos) >= WorldH
          \/ /\ tick[g].pc = "loop2"
             /\ tick'[g].pc = "wait"
             /\ s \in game[g].Sessions
             /\ Cell(Player[s].Pos) \in tick[g].trailCoordMap)
             => /\ Player'[s].Trail = <<>>
                /\ Player'[s].score = 0
                /\ Player'[s].Color = Player[s].Color
                /\ game'[g].Sessions = game[g].Sessions
                /\ stream' = stream]_vars

\* The second loop of the last tick has restarted the Player of a Session
\* that is still registered, its stream open, with an empty Trail, no score
\* and its Color.
C14_Witness ==
    \E s \in PlayConns :
        /\ tick[1].pc = "wait"
        /\ s \in tick[1].collided
        /\ s \in game[1].Sessions
        /\ stream[s].closed = 0
        /\ Player[s].Trail = <<>>
        /\ Player[s].score = 0
        /\ Player[s].Color = playerColors[s]

\* C13: every Player is made in a cell of the grid.  A Player that a tick
\* moves out of the grid is replaced in the same iteration, so a Player that
\* a state holds outside the grid was made there.
C13_StartsInGrid ==
    \A s \in DOMAIN Player :
        /\ 0 <= RoundX(Player[s].Pos) /\ RoundX(Player[s].Pos) < WorldW
        /\ 0 <= RoundY(Player[s].Pos) /\ RoundY(Player[s].Pos) < WorldH

\* C15: the high score of a registered Session, the one its frames show as
\* "Your High Score", never goes down.
C15_HighScoreKept ==
    [][\A g \in DOMAIN game : \A s \in game[g].Sessions :
         Player'[s].HighScore >= Player[s].HighScore]_vars

C17_OppositeIgnored ==
    [][\A c \in DOMAIN Player :
         (/\ inp[c].pc = "read"
          /\ stream'[c].buffered < stream[c].buffered
          /\ inp'[c].ignored)
             => /\ Player'[c].Direction = Player[c].Direction
                /\ Player'[c].Marker = Player[c].Marker
                /\ Player'[c].LastAction = Player[c].LastAction]_vars

\* A participant who has turned, and whose last command, read later than the
\* turn, was the opposite of the new Direction: the turn's time stands.
C17_Witness ==
    \E c \in PlayConns :
        /\ inp[c].ignored
        /\ Player[c].Direction = "PlayerLeft"
        /\ Player[c].Marker = "playerLeftRune"
        /\ Player[c].LastAction < now
        /\ Player[c].LastAction > 0

\* The colors of the Players of g's registered Sessions.
HeldColors(g) == {Player[s].Color : s \in game[g].Sessions}

\* C18: AvailableColors is the palette without the colors the Players of the
\* registered Sessions hold; it is empty exactly when they hold all of the
\* palette.
C18_AvailableColors ==
    \A g \in DOMAIN game :
        /\ AvailableColors(g) = Palette \ HeldColors(g)
        /\ AvailableColors(g) = {} <=> HeldColors(g) = Palette

\* A connection has been given the last free color of a Game and is
\* registered: the Game's Players hold the whole palette and AvailableColors
\* is empty.
C18_Witness ==
    \E g \in DOMAIN game : \E c \in Conns :
        /\ c \in game[g].Sessions
        /\ hc[c].pc = "done"
        /\ HeldColors(g) = Palette
        /\ AvailableColors(g) = {}

\* A Render goroutine's write of a frame to c waits on a stalled peer.
BlockedRender(c) == c \in renders /\ ~CanWrite(stream[c])

\* The tick goroutine of g is at a write to a stream that waits on a stalled
\* peer.
TickBlocked(g) ==
    /\ tick[g].pc \in {"evict_notice", "evict_write"}
    /\ ~CanWrite(stream[tick[g].cur])

\* C19: while the write of a frame to a stalled participant is blocked, the
\* tick task of its Game is not held up.
C19_StalledPeerDelaysOnlyItself ==
    \A c \in Conns :
        BlockedRender(c) => \A g \in DOMAIN tick : hc[c].g = g => ~TickBlocked(g)

\* C20: the tick task is never at a stream write that waits on a stalled
\* peer.
C20_TickNeverWaitsOnStream ==
    \A g \in DOMAIN tick : ~TickBlocked(g)

\* C21: once a Session's stream is closed, no redraw cycle dispatches a render
\* for it, no tick that begins afterwards moves, scores or restarts its
\* Player, and its input task comes to its end (unless the process dies
\* first).
C21_RemovedSessionStops ==
    /\ [][\A s \in DOMAIN Player :
             /\ (stream[s].closed > 0 /\ s \notin renders)
                    => s \notin renders'
             /\ \A g \in DOMAIN tick :
                    s \in tick[g].closedBefore
                        => /\ s \notin tick[g].todo
                           /\ Player'[s].Pos = Player[s].Pos
                           /\ Player'[s].Trail = Player[s].Trail
                           /\ Player'[s].score = Player[s].score]_vars
    /\ \A s \in RunConns :
           (stream[s].closed > 0) ~> (inp[s].pc = "exit" \/ ~Alive)

\* A tick that began after the Session's stream was closed is in its second
\* loop; the input task is over and no render is pending for the Session.
C21_Witness ==
    \E s \in RunConns :
        /\ tick[1].pc = "loop2"
        /\ s \in tick[1].closedBefore
        /\ inp[s].pc = "exit"
        /\ s \notin renders
        /\ Alive

\* The Games whose session set holds Session c.
GamesOf(c) == {g \in DOMAIN game : c \in game[g].Sessions}

\* AddSession has put c into the session set of its Game.
Admitted(c) == hc[c].pc \in {"add_end", "done"}

\* Some RemoveSession call has deleted c from the session set of its Game.
Removed(c) ==
    \/ inp[c].pc \in {"rm_delend", "rm_close"}
    \/ stream[c].closed > 0
    \/ \E g \in DOMAIN tick :
         tick[g].cur = c /\ tick[g].pc \in {"evict_delend", "evict_close"}

\* C22: a Session is in the session set of at most one Game, and from its
\* admission until its removal in that of exactly one: the Game its
\* HandleChannel call chose.
C22_OneGamePerSession ==
    \A c \in Conns :
        /\ Cardinality(GamesOf(c)) <= 1
        /\ (Admitted(c) /\ ~Removed(c)) => GamesOf(c) = {hc[c].g}
        /\ (~Admitted(c) \/ Removed(c)) => GamesOf(c) = {}

\* Two Games, each with an admitted Session of its own.
C22_Witness ==
    \E c1, c2 \in Conns :
        /\ hc[c1].g # hc[c2].g
        /\ Admitted(c1) /\ ~Removed(c1) /\ GamesOf(c1) = {hc[c1].g}
        /\ Admitted(c2) /\ ~Removed(c2) /\ GamesOf(c2) = {hc[c2].g}

\* C23: a tick ends from its collision pass, with every Player of the
\* snapshot it began with handled by the first loop; so also a tick that
\* evicts a Session.
C23_TickAdvancesAll ==
    [][\A g \in DOMAIN tick :
         (tick[g].pc # "wait" /\ tick'[g].pc = "wait")
             => /\ tick[g].pc = "loop2"
                /\ tick[g].todo \subseteq {tick[g].cur}]_vars

\* The cells of the Trails of the Players of g's registered Sessions.
LiveTrailCells(g) == UNION {TrailCells(Player[s]) : s \in game[g].Sessions}

\* C24: when the first loop of a tick is over, trailCoordMap holds the cells
\* of the Trails of the Players that are live then, and no others: not those
\* of a Player the loop has replaced for being out of the grid.
C24_OccupiedCellsAreLive ==
    \A g \in DOMAIN tick :
        tick[g].pc = "loop2" => tick[g].trailCoordMap = LiveTrailCells(g)

\* C25: nothing is written to a Session's stream once a RemoveSession call
\* has closed it: no frame, whenever its render was dispatched, no notice, no
\* second termination message.
C25_NoWriteAfterClose ==
    \A c \in Conns : ~stream[c].late

\* C26: the three calls of g.players() in one worldString call range over
\* the same Sessions: the set that was counted is the set that is drawn and,
\* when the scores are listed, the set whose scores are listed.
C26_RenderOneSnapshot ==
    \A s \in Conns :
        world[s].pc = "copy"
            => /\ world[s].drawn = world[s].counted
               /\ Cardinality(world[s].counted) > 1
                      => world[s].listed = world[s].counted

\* C27: whenever a Render goroutine is about to draw the Players, the Marker
\* of every registered Session's Player is the rune of its Direction.
C27_MarkerMatchesDirection ==
    renders # {}
        => \A g \in DOMAIN game : \A s \in game[g].Sessions :
               Player[s].Marker = RuneOf(Player[s].Direction)

\* The step from cell b to cell c goes against the step from cell a to b.
Reverses(a, b, c) ==
    \/ (b[1] - a[1]) * (c[1] - b[1]) < 0
    \/ (b[2] - a[2]) * (c[2] - b[2]) < 0

\* C28: a Player's last change of cell (from the cell of the head of its
\* Trail to the cell it is in) never goes against the one before it (from the
\* cell of the second segment of its Trail to that of the head).
C28_NoUTurn ==
    \A g \in DOMAIN game : \A s \in game[g].Sessions :
        Len(Player[s].Trail) >= 2
            => ~Reverses(Cell(Player[s].Trail[2].Pos),
                         Cell(Player[s].Trail[1].Pos),
                         Cell(Player[s].Pos))

\* C29: the delta a tick hands to Update is the time since the tick before
\* it, or, for the first tick of a Game, since Run started its game loop.
C29_DeltaIsElapsed ==
    [][\A g \in DOMAIN tick :
         (tick[g].pc = "wait" /\ tick'[g].pc # "wait")
             => tick'[g].delta = tick'[g].now - tick[g].lastTick]_vars

\* strWorld[x+1][y+1] is an element of the (width+2) x (height+2) buffer.
InBuffer(pos) ==
    /\ -1 <= RoundX(pos) /\ RoundX(pos) <= WorldW
    /\ -1 <= RoundY(pos) /\ RoundY(pos) <= WorldH

\* C30: whenever a Render goroutine is about to draw the Players, the Pos of
\* every registered Session's Player and of every segment of its Trail is in
\* the buffer; so also between the move and the bounds check of a tick.
C30_IndexesValid ==
    renders # {}
        => \A g \in DOMAIN game : \A s \in game[g].Sessions :
               /\ InBuffer(Player[s].Pos)
               /\ \A i \in 1 .. Len(Player[s].Trail) :
                      InBuffer(Player[s].Trail[i].Pos)

\* C31: an entry of gm.Games stays as it is until a Session of the Game it
\* names quits as the last one: making a Game never replaces it.
C31_InsertKeepsEntries ==
    [][\A n \in Names :
         Games[n] # NoGame
             => \/ Games'[n] = Games[n]
                \/ /\ Games'[n] = NoGame
                   /\ \E c \in Conns :
                        hc[c].g = Games[n] /\ inp[c].pc = "quit_delete"]_vars

\* The Game is out of gm.Games and has no Session.
Dropped(g) == ~InTable(g) /\ game[g].Sessions = {}

\* The game loop of g has left its `for now := range c`.  The channel of
\* time.Tick is never closed and the loop has no break or return: no step of
\* the loop leads here.
Stopped(g) == tick[g].pc = "exit"

\* C32: once a Game is out of the table with its last Session gone, its game
\* loop comes to an end.
C32_DroppedGameStops ==
    \A g \in RunConns :
        Dropped(g) ~> (Stopped(g) \/ ~Alive)

\* The step is player.Update on the Player of Session s.
Updates(g, s) ==
    /\ tick[g].pc = "loop1"
    /\ tick'[g].pc = "check"
    /\ tick'[g].cur = s

\* The side of cell b on which its neighbour n lies (y grows downwards).
Side(b, n) ==
    CASE n[1] < b[1] -> "left"
      [] n[1] > b[1] -> "right"
      [] n[2] < b[2] -> "up"
      [] n[2] > b[2] -> "down"

\* The glyph that joins two sides of a cell.
Joint(s1, s2) ==
    CASE {s1, s2} \subseteq {"left", "right"} -> "playerTrailHorizontal"
      [] {s1, s2} \subseteq {"up", "down"} -> "playerTrailVertical"
      [] {s1, s2} = {"down", "right"} -> "playerTrailLeftCornerUp"
      [] {s1, s2} = {"up", "right"} -> "playerTrailLeftCornerDown"
      [] {s1, s2} = {"up", "left"} -> "playerTrailRightCornerDown"
      [] {s1, s2} = {"down", "left"} -> "playerTrailRightCornerUp"

\* C33: the segment player.Update adds for the cell b the Player leaves has
\* the glyph that joins the side of b it came in by (the cell at the head of
\* its Trail) and the side it goes out by: straight along the axis when the
\* two are on one axis, the corner of the two sides otherwise; and the first
\* segment of a Player that goes on in the grid is straight along the axis of
\* travel.
C33_GlyphJoinsEntryAndExit ==
    [][\A s \in DOMAIN Player :
         LET p == Player[s]
             q == Player'[s]
             b == Cell(p.Pos)
             c == Cell(q.Pos)
         IN  (Updates(1, s) /\ c # b)
                 => /\ Len(q.Trail) > 0
                    /\ Len(p.Trail) > 0
                          => q.Trail[1].Marker =
                                 Joint(Side(b, Cell(p.Trail[1].Pos)),
                                       Side(b, c))
                    /\ (Len(p.Trail) = 0 /\ c \in GridCells)
                          => q.Trail[1].Marker =
                                 Joint(Side(b, c), Side(b, c))]_vars

\* A Player that came from (0,0) into (1,0) and has now gone down into
\* (1,1): the segment at (1,0) is the corner that joins left and down.
C33_Witness ==
    /\ tick[1].pc = "check"
    /\ Cell(Player[1].Pos) = <<1, 1>>
    /\ Len(Player[1].Trail) = 2
    /\ Cell(Player[1].Trail[2].Pos) = <<0, 0>>
    /\ Cell(Player[1].Trail[1].Pos) = <<1, 0>>
    /\ Player[1].Trail[1].Marker = "playerTrailRightCornerUp"

\* C34: player.Update puts one segment, at the cell the Player was in, in
\* front of the Trail when the rounded cell of the Player changed, and leaves
\* the Trail as it was when the rounded cell did not change.
C34_OneSegmentPerCellLeft ==
    [][\A s \in {1} :
         Updates(1, s) =>
             LET p == Player[s]
                 q == Player'[s]
             IN  IF Cell(q.Pos) # Cell(p.Pos)
                 THEN /\ Len(q.Trail) = Len(p.Trail) + 1
                      /\ SubSeq(q.Trail, 2, Len(q.Trail)) = p.Trail
                      /\ q.Trail[1].Pos =
                             PositionFromInt(RoundX(p.Pos), RoundY(p.Pos))
                 ELSE q.Trail = p.Trail]_vars

\* A Player that came from (1,0) into (0,0) and has now gone down into
\* (0,1): one segment was added, at (0,0).
C34_Witness ==
    /\ tick[1].pc = "check"
    /\ Cell(Player[1].Pos) = <<0, 1>>
    /\ Len(Player[1].Trail) = 2
    /\ Player[1].Trail[2].Pos = PositionFromInt(1, 0)
    /\ Player[1].Trail[1].Pos = PositionFromInt(0, 0)

\* C35: from one state to the next the Trail of a Player is as it was, or
\* has one new segment in front of the segments it had, those unchanged and
\* in the same order, or belongs to a Player that has just started over.
C35_TrailGrowsAtFront ==
    [][\A s \in PlayConns :
         LET old == Player[s].Trail
             new == Player'[s].Trail
         IN  \/ new = old
             \/ /\ Len(new) = Len(old) + 1
                /\ SubSeq(new, 2, Len(new)) = old
             \/ /\ new = <<>>
                /\ Player'[s].score = 0
                /\ Player'[s].Direction = "PlayerDown"]_vars

\* A Player that has left two cells since it started: the later segment is
\* in front of the earlier one.
C35_Witness ==
    \E s \in PlayConns :
        /\ Len(Player[s].Trail) = 2
        /\ Player[s].Trail[1].Pos # Player[s].Trail[2].Pos

\* C36: once Update's loop body has handled a Player, the HighScore of the
\* Game and the HighScore of the Player are at least the Player's Score(); and
\* no step takes the HighScore of a Game down.
C36_HighScoresCoverScores ==
    /\ [](\A g \in DOMAIN game : \A s \in game[g].Sessions :
             /\ game[g].HighScore >= Score(Player[s])
             /\ Player[s].HighScore >= Score(Player[s]))
    /\ [][\A g \in DOMAIN game :
             game'[g].HighScore >= game[g].HighScore]_vars

\* A Player has scored a point in a tick and both high scores show it.
C36_Witness ==
    \E g \in DOMAIN game : \E s \in game[g].Sessions :
        /\ s \in tick[g].advanced
        /\ Score(Player[s]) >= 1
        /\ Player[s].HighScore = Score(Player[s])
        /\ game[g].HighScore >= Score(Player[s])

\* C37: RoundX and RoundY of the position of a Player are the floor of the
\* coordinate plus a half, also left of and above the grid.
C37_RoundIsFloor ==
    \A s \in DOMAIN Player :
        /\ RoundX(Player[s].Pos) = (Player[s].Pos.X + HalfCell) \div CellUnit
        /\ RoundY(Player[s].Pos) = (Player[s].Pos.Y + HalfCell) \div CellUnit

\* C38: player.Update with a delta of at most 100 ms takes the rounded cell
\* of the Player at most one cell along the axis of its Direction and leaves
\* the other coordinate of the cell as it was.
C38_AtMostOneCellPerTick ==
    [][\A s \in {1} :
         (Updates(1, s) /\ tick[1].delta <= 100) =>
             LET b == Cell(Player[s].Pos)
                 c == Cell(Player'[s].Pos)
             IN  IF Player[s].Direction \in {"PlayerLeft", "PlayerRight"}
                 THEN c[2] = b[2] /\ (c[1] - b[1]) \in {-1, 0, 1}
                 ELSE c[1] = b[1] /\ (c[2] - b[2]) \in {-1, 0, 1}]_vars

\* A Player just short of the right edge of cell (0,0) has gone Right for
\* 100 ms: it is a whole cell further, in (1,0).
C38_Witness ==
    /\ tick[1].pc = "check"
    /\ tick[1].delta = 100
    /\ Player[1].Direction = "PlayerRight"
    /\ Player[1].Pos = [X |-> 1490, Y |-> 0]
    /\ Cell(Player[1].Pos) = <<1, 0>>

\* ReadRune of connection c returns a rune in this step.
Reads(c) == stream[c].buffered > 0 /\ stream'[c].buffered < stream[c].buffered

\* The step does to the Player of c what a request for direction d does, and
\* nothing to the Game or the table.
Requests(c, d) ==
    /\ Player'[c] = IF Player[c].Direction = Opposite(d) THEN Player[c]
                    ELSE [Player[c] EXCEPT !.Direction = d,
                                           !.Marker = RuneOf(d),
                                           !.LastAction = now]
    /\ \A s \in PlayConns \ {c} : Player'[s] = Player[s]
    /\ game' = game
    /\ Games' = Games
    /\ inp'[c].pc = "read"

\* C39: the read of 'w', 'k' or ',' requests Up, of 'a' or 'h' Left, of 's',
\* 'j' or 'o' Down, of 'd', 'l' or 'e' Right; the read of Ctrl-C (3) or Escape
\* (27) starts the removal of the Session, which is out of its Game when the
\* handler is back at ReadRune; the read of any other rune leaves the Players,
\* the Game, the table and the handler as they were.
C39_KeysDoWhatTheyMap ==
    /\ [][\A c \in PlayConns :
             Reads(c) =>
                 LET r == stream[c].rune
                 IN  CASE r \in {119, 107, 44} -> Requests(c, "PlayerUp")
                       [] r \in {97, 104} -> Requests(c, "PlayerLeft")
                       [] r \in {115, 106, 111} -> Requests(c, "PlayerDown")
                       [] r \in {100, 108, 101} -> Requests(c, "PlayerRight")
                       [] r \in {3, 27} ->
                            /\ inp'[c].pc = "quit_count"
                            /\ Player' = Player
                       [] OTHER ->
                            /\ Player' = Player
                            /\ game' = game
                            /\ Games' = Games
                            /\ inp'[c].pc = "read"]_vars
    /\ [](\A c \in PlayConns :
             (/\ stream[c].rune \in {3, 27}
              /\ stream[c].buffered = 0
              /\ inp[c].pc \in {"read", "exit"})
                 => \A g \in DOMAIN game : c \notin game[g].Sessions)

\* The first participant has pressed 'h' and the second Ctrl-C: the Player of
\* the first heads Left, the second is out of the Game, its handler back at
\* ReadRune.
C39_Witness ==
    /\ stream[1].rune = 104
    /\ stream[1].buffered = 0
    /\ Player[1].Direction = "PlayerLeft"
    /\ stream[PlaySessions].rune = 3
    /\ stream[PlaySessions].buffered = 0
    /\ inp[PlaySessions].pc = "read"
    /\ game[1].Sessions = Steering

\* What C40 speaks of: the session set of a Game, its HighScore and, for
\* each of its Sessions, the position, trail, score and color of the Player.
View(g) ==
    [Sessions |-> game[g].Sessions,
     HighScore |-> game[g].HighScore,
     Actors |-> [s \in game[g].Sessions |->
                   [Pos |-> Player[s].Pos, Trail |-> Player[s].Trail,
                    score |-> Player[s].score, Color |-> Player[s].Color]]]

\* The step is one of Game g: of its Run goroutine, or of the HandleChannel
\* call or the handleSession goroutine of a connection that is or comes to be
\* with g.
Acts(g) ==
    \/ tick'[g] # tick[g]
    \/ \E c \in Conns :
          /\ hc[c].g = g \/ hc'[c].g = g
          /\ \/ hc'[c] # hc[c]
             \/ inp'[c] # inp[c]
             \/ stream'[c] # stream[c]
             \/ lastInput'[c] # lastInput[c]

\* C40: a step of one Game (of its tick, of an admission to it, of a command
\* or a removal of one of its Sessions) leaves the session set, the Players
\* and the HighScore of every other Game as they were.
C40_GamesIndependent ==
    [][\A g \in DOMAIN game :
         Acts(g) => \A h \in DOMAIN game \ {g} : View(h)' = View(h)]_vars

\* Connection 2 has been admitted to the second Game while the first Game
\* ticked and its participant turned right; the second Game has ticked too.
C40_Witness ==
    /\ game[Guest].Sessions = {Guest, 2}
    /\ game[1].Sessions = {1}
    /\ Player[1].Direction = "PlayerRight"
    /\ 1 \in tick[1].advanced
    /\ Guest \in tick[Guest].advanced
    /\ Player[Guest].Pos # Origin

====
